---- MODULE Spec2Model ----
(***************************************************************************)
(* Sobel filter on an animated GIF.                                        *)
(*                                                                         *)
(*   mode "2D": src/src/main.cpp - per frame, four SobelWorker threads     *)
(*              each convolve one quadrant of the frame.                   *)
(*   mode "3D": src/archive/Version_7/src/main.cpp - a three frame window  *)
(*              (prev, curr, next) and a 3x3x3 separable Sobel.            *)
(*                                                                         *)
(* A cv::Mat is a header that refers to a reference counted pixel buffer.  *)
(* In 2D mode every Mat is either private to one loop iteration or never   *)
(* assigned to another Mat, so a Mat is modelled by value, as the record   *)
(* [rows, cols, data].  In 3D mode Mats are assigned to each other         *)
(* (prev = curr), so there a Mat is the id of a buffer and the pixels live *)
(* in a heap (bgrData, grayData).                                          *)
(*                                                                         *)
(* Float fields: gx, gy, gt hold integers (exact in a float);  mag holds   *)
(* the square root in units of 1/4;  theta holds milliradians.             *)
(***************************************************************************)
EXTENDS Integers, Naturals, Sequences, FiniteSets, TLC

\* ------------------------------------------------------------------------
\* Bounds of the model
\* ------------------------------------------------------------------------
\* frames are 1..MaxDim pixels wide and high
MaxDim == 5
\* the GIF has 0..MaxFrames frames
MaxFrames == 4
\* the playback loop is cut after MaxIter processed frames
MaxIter == 2

\* ------------------------------------------------------------------------
\* State
\* ------------------------------------------------------------------------
VARIABLES
    mode,           \* "2D" or "3D": which program runs
    pc,             \* position of the main thread
    gif,            \* the input file
    capOpened,      \* cap.isOpened()
    capPos,         \* index of the frame the next cap >> reads
    frame,          \* 2D: the BGR frame
    gray,           \* 2D: its grayscale
    gx, gy,         \* float outputs (both modes)
    mag, theta,     \* 2D: float outputs
    tasks,          \* 2D: SobelTask tasks[4]
    threads,        \* 2D: HANDLE threads[4]: "null", "open" or "closed"
    ci,             \* 2D: the index i of the CreateThread loop
    worker,         \* 2D: locals and position of each SobelWorker thread
    gx8, gy8, mag8, theta8,     \* 2D: the 8-bit images
    outOriginal,    \* the frames written to original.mp4 (both modes)
    outGray, outGx, outGy, outMag, outTheta,    \* 2D: the other writers
    framePrevBgr, frameCurrBgr, frameNextBgr,   \* 3D: BGR Mats (buffer ids)
    prev, curr, next,                           \* 3D: grayscale Mats (buffer ids)
    bgrData, grayData,                          \* 3D: the pixel buffers
    gt, mag3d, gt8, mag3d8,                     \* 3D: outputs
    outGt, outMag3D,                            \* 3D: writers
    shown,          \* number of imshow rounds
    writer,         \* history: for each output pixel, the workers that stored to it
    iter,           \* history: number of frames that entered processing
    normCount,      \* history: number of frames normalized
    startFailed,    \* history: CreateThread returned nullptr
    restarts,       \* history: number of times the GIF was opened again
    ended,          \* history: why the main thread left the loop ("no": it has not)
    oob,            \* history: a pixel access fell outside its buffer
    advances        \* history: 3D, window advances since the last priming

vars2D == << frame, gray, mag, theta, tasks, threads, ci, worker, gx8, gy8, mag8, theta8,
             outGray, outGx, outGy, outMag, outTheta, writer, startFailed >>

vars3D == << framePrevBgr, frameCurrBgr, frameNextBgr, prev, curr, next, bgrData, grayData,
             gt, mag3d, gt8, mag3d8, outGt, outMag3D, advances >>

varsShared == << mode, pc, gif, capOpened, capPos, gx, gy, outOriginal, shown, iter, normCount,
                restarts, ended, oob >>

vars == << varsShared, vars2D, vars3D >>

\* ------------------------------------------------------------------------
\* The input file: a GIF is its size, its frame count and a colour pattern
\* ------------------------------------------------------------------------
Palette == << <<0, 0, 0>>, <<128, 128, 128>>, <<255, 255, 255>>, <<255, 0, 0>>, <<0, 255, 0>> >>

\* <<px, py, pf>>: the colour index of pixel (y, x) of frame f is pf*f + px*x + py*y
\* (pf = 0: every frame shows the same picture)
Patterns == { <<0, 0, 1>>, <<1, 0, 0>>, <<1, 2, 1>> }

Gifs == [cols : 1..MaxDim, rows : 1..MaxDim, nFrames : 0..MaxFrames, pattern : Patterns]

Cells(r, c) == (0..(r - 1)) \X (0..(c - 1))

NoData == [c \in {} |-> 0]

\* cv::Mat() : no buffer
EmptyMat == [rows |-> 0, cols |-> 0, data |-> NoData]

IsEmpty(m) == m.rows = 0 \/ m.cols = 0

\* frame f (0-based) of the file, as the decoder delivers it (BGR)
SourceFrame(g, f) ==
    [rows |-> g.rows, cols |-> g.cols,
     data |-> [c \in Cells(g.rows, g.cols) |->
                 Palette[((g.pattern[3] * f + g.pattern[1] * c[2] + g.pattern[2] * c[1]) % Len(Palette)) + 1]]]

\* ------------------------------------------------------------------------
\* Library operations, by what they compute
\* ------------------------------------------------------------------------
\* cv::cvtColor(src, dst, COLOR_BGR2GRAY): fixed point luma of <<b, g, r>>
Luma(p) == (p[1] * 1868 + p[2] * 9617 + p[3] * 4899 + 8192) \div 16384

BGR2GRAY(m) == [rows |-> m.rows, cols |-> m.cols, data |-> [c \in DOMAIN m.data |-> Luma(m.data[c])]]

\* cv::cvtColor(src, dst, COLOR_GRAY2BGR)
GRAY2BGR(m) == [rows |-> m.rows, cols |-> m.cols,
                data |-> [c \in DOMAIN m.data |-> <<m.data[c], m.data[c], m.data[c]>>]]

\* an allocation that is not cleared: the pixels the last gx left there
UnclearedMat(r, c) ==
    IF gx.rows = r /\ gx.cols = c THEN gx
    ELSE [rows |-> r, cols |-> c, data |-> [cell \in Cells(r, c) |-> 0]]

\* cv::Mat(size, CV_32F, cv::Scalar(0))
ZeroMat(r, c) == [rows |-> r, cols |-> c, data |-> [cell \in Cells(r, c) |-> 0]]

\* m.at<T>(y, x); a read outside the buffer is not checked by the library
MatAt(m, y, x) == IF <<y, x>> \in DOMAIN m.data THEN m.data[<<y, x>>] ELSE 0

\* m.at<float>(y, x) = v
MatPut(m, y, x, v) ==
    IF <<y, x>> \in DOMAIN m.data THEN [m EXCEPT !.data[<<y, x>>] = v] ELSE m

Abs(v) == IF v < 0 THEN -v ELSE v

Max2(a, b) == IF a > b THEN a ELSE b

Min2(a, b) == IF a < b THEN a ELSE b

RECURSIVE SumSeq(_)
SumSeq(s) == IF s = <<>> THEN 0 ELSE Head(s) + SumSeq(Tail(s))

RECURSIVE ISqrtIn(_, _, _)
ISqrtIn(n, lo, hi) ==
    IF lo >= hi THEN lo
    ELSE LET mid == (lo + hi + 1) \div 2
         IN  IF mid * mid <= n THEN ISqrtIn(n, mid, hi) ELSE ISqrtIn(n, lo, mid - 1)

ISqrt(n) == ISqrtIn(n, 0, Min2(n, 46340))

\* std::sqrt(s) for an integer s, in units of 1/4
FloatSqrt(s) == ISqrt(16 * s)

\* std::atan2(y, x) in milliradians, range [-3142, 3142]; atan2(0, 0) = 0
Atan2(y, x) ==
    IF x = 0 /\ y = 0 THEN 0
    ELSE LET ax == Abs(x)
             ay == Abs(y)
             z  == (1000 * Min2(ax, ay)) \div Max2(ax, ay)
             a0 == (785 * z + (273 * z * (1000 - z)) \div 1000) \div 1000
             a1 == IF ay > ax THEN 1571 - a0 ELSE a0
             a2 == IF x < 0 THEN 3142 - a1 ELSE a1
         IN  IF y < 0 THEN -a2 ELSE a2

\* cv::abs(m)
AbsMat(m) == [m EXCEPT !.data = [c \in DOMAIN m.data |-> Abs(m.data[c])]]

MinOf(m) == CHOOSE v \in {m.data[c] : c \in DOMAIN m.data} : \A c \in DOMAIN m.data : v <= m.data[c]

MaxOf(m) == CHOOSE v \in {m.data[c] : c \in DOMAIN m.data} : \A c \in DOMAIN m.data : v >= m.data[c]

\* cvRound of n/d for n >= 0, d > 0: to nearest, ties to even
RoundHalfEven(n, d) ==
    LET q == n \div d
        r == n % d
    IN  IF 2 * r < d THEN q
        ELSE IF 2 * r > d THEN q + 1
        ELSE IF q % 2 = 0 THEN q ELSE q + 1

\* scaling by 255 / max only, without moving the minimum to 0
Normalize8NoShift(m) ==
    IF IsEmpty(m) THEN m
    ELSE LET mn == MinOf(m)
             mx == MaxOf(m)
         IN  [m EXCEPT !.data = [c \in DOMAIN m.data |->
                 IF mx = mn \/ mx = 0 THEN 0
                 ELSE Min2(255, Max2(0, RoundHalfEven(255 * m.data[c] + 255 * Abs(mx), Abs(mx)) - 255))]]

\* cv::normalize(m, dst, 0, 255, NORM_MINMAX) then dst.convertTo(dst, CV_8U):
\* scale = 255 / (max - min), or 0 for a constant field
Normalize8(m) ==
    IF IsEmpty(m) THEN m
    ELSE LET mn == MinOf(m)
             mx == MaxOf(m)
         IN  [m EXCEPT !.data = [c \in DOMAIN m.data |->
                 IF mx = mn THEN 0
                 ELSE Min2(255, Max2(0, RoundHalfEven(255 * (m.data[c] - mn), mx - mn)))]]

\* ------------------------------------------------------------------------
\* Sobel kernels
\* ------------------------------------------------------------------------
kx == << <<-1, 0, 1>>, <<-2, 0, 2>>, <<-1, 0, 1>> >>

ky == << <<-1, -2, -1>>, <<0, 0, 0>>, <<1, 2, 1>> >>

\* the (j, i) pairs of the two inner loops, in loop order
Offsets2 == << <<-1, -1>>, <<-1, 0>>, <<-1, 1>>,
               <<0, -1>>,  <<0, 0>>,  <<0, 1>>,
               <<1, -1>>,  <<1, 0>>,  <<1, 1>> >>

\* the accumulators with the kernels indexed [i + 1][j + 1]
SobelSumsTransposed(img, y, x) ==
    [sumX |-> SumSeq([n \in 1..9 |->
                 MatAt(img, y + Offsets2[n][1], x + Offsets2[n][2])
                   * kx[Offsets2[n][2] + 2][Offsets2[n][1] + 2]]),
     sumY |-> SumSeq([n \in 1..9 |->
                 MatAt(img, y + Offsets2[n][1], x + Offsets2[n][2])
                   * ky[Offsets2[n][2] + 2][Offsets2[n][1] + 2]])]

\* the accumulators sumX, sumY of one pixel
SobelSums(img, y, x) ==
    [sumX |-> SumSeq([n \in 1..9 |->
                 MatAt(img, y + Offsets2[n][1], x + Offsets2[n][2])
                   * kx[Offsets2[n][1] + 2][Offsets2[n][2] + 2]]),
     sumY |-> SumSeq([n \in 1..9 |->
                 MatAt(img, y + Offsets2[n][1], x + Offsets2[n][2])
                   * ky[Offsets2[n][1] + 2][Offsets2[n][2] + 2]])]

\* one pixel of the loops touches a cell outside the buffer it indexes: the nine
\* reads img.at(y + j, x + i) and the four stores at (y, x)
PixelOutOfBounds(f, img, y, x) ==
    \/ \E n \in 1..9 : <<y + Offsets2[n][1], x + Offsets2[n][2]>> \notin DOMAIN img.data
    \/ \E m \in {f.gx, f.gy, f.mag, f.theta} : <<y, x>> \notin DOMAIN m.data

\* the four stores of one pixel, on the record f of the four output Mats
StorePixel(f, img, y, x) ==
    LET s == SobelSums(img, y, x)
    IN  [gx    |-> MatPut(f.gx, y, x, s.sumX),
         gy    |-> MatPut(f.gy, y, x, s.sumY),
         mag   |-> MatPut(f.mag, y, x, FloatSqrt(s.sumX * s.sumX + s.sumY * s.sumY)),
         theta |-> MatPut(f.theta, y, x, Atan2(s.sumY, s.sumX))]

\* Version_3: the sequential loop over the whole interior, from pixel (y, x) on
RECURSIVE SequentialLoop(_, _, _, _)
SequentialLoop(f, img, y, x) ==
    IF y >= img.rows - 1 THEN f
    ELSE IF x >= img.cols - 1 THEN SequentialLoop(f, img, y + 1, 1)
    ELSE SequentialLoop(StorePixel(f, img, y, x), img, y, x + 1)

\* Version_3: some pixel the sequential loop visits, from pixel (y, x) on, is
\* out of bounds
RECURSIVE SequentialLoopOutOfBounds(_, _, _, _)
SequentialLoopOutOfBounds(f, img, y, x) ==
    IF y >= img.rows - 1 THEN FALSE
    ELSE IF x >= img.cols - 1 THEN SequentialLoopOutOfBounds(f, img, y + 1, 1)
    ELSE PixelOutOfBounds(f, img, y, x) \/ SequentialLoopOutOfBounds(f, img, y, x + 1)

\* Version_3: zeroed outputs, then the sequential loop
SobelSequential(img) ==
    SequentialLoop([gx    |-> ZeroMat(img.rows, img.cols),
                    gy    |-> ZeroMat(img.rows, img.cols),
                    mag   |-> ZeroMat(img.rows, img.cols),
                    theta |-> ZeroMat(img.rows, img.cols)], img, 1, 1)

\* ------------------------------------------------------------------------
\* The four quadrant tasks and the worker's clamp
\* ------------------------------------------------------------------------
Workers == 0..3

\* the right and bottom quadrants begin one past the middle
MakeTasksGap(img) ==
    LET midX == img.cols \div 2
        midY == img.rows \div 2
        t == << [x0 |-> 0,        x1 |-> midX,     y0 |-> 0,        y1 |-> midY],
                [x0 |-> midX + 1, x1 |-> img.cols, y0 |-> 0,        y1 |-> midY],
                [x0 |-> 0,        x1 |-> midX,     y0 |-> midY + 1, y1 |-> img.rows],
                [x0 |-> midX + 1, x1 |-> img.cols, y0 |-> midY + 1, y1 |-> img.rows] >>
    IN  [k \in 0..3 |-> t[k + 1]]

\* SobelTask tasks[4]: region bounds [x0, x1) x [y0, y1)
MakeTasks(img) ==
    LET midX == img.cols \div 2
        midY == img.rows \div 2
        t == << [x0 |-> 0,    x1 |-> midX,     y0 |-> 0,    y1 |-> midY],
                [x0 |-> midX, x1 |-> img.cols, y0 |-> 0,    y1 |-> midY],
                [x0 |-> 0,    x1 |-> midX,     y0 |-> midY, y1 |-> img.rows],
                [x0 |-> midX, x1 |-> img.cols, y0 |-> midY, y1 |-> img.rows] >>
    IN  [k \in Workers |-> t[k + 1]]

NoTasks == [k \in Workers |-> [x0 |-> 0, x1 |-> 0, y0 |-> 0, y1 |-> 0]]

\* the loops run over the region as given, borders included
ClampNoBorder(t, img) == [startY |-> t.y0, endY |-> t.y1, startX |-> t.x0, endX |-> t.x1]

\* the loops run over the whole interior, whatever the region
ClampWholeImage(t, img) ==
    [startY |-> 1, endY |-> img.rows - 1, startX |-> 1, endX |-> img.cols - 1]

\* SobelWorker: the region clamped to the safe convolution area
Clamp(t, img) ==
    [startY |-> Max2(t.y0, 1), endY |-> Min2(t.y1, img.rows - 1),
     startX |-> Max2(t.x0, 1), endX |-> Min2(t.x1, img.cols - 1)]

\* the pixels the two for loops of a worker visit
LoopCells(b) == {c \in (b.startY..(b.endY - 1)) \X (b.startX..(b.endX - 1)) : TRUE}

\* a thread that was not created, or has no locals yet
IdleWorker == [st |-> "none", startY |-> 0, endY |-> 0, startX |-> 0, endX |-> 0, y |-> 0, x |-> 0]

NoWriter == [c \in {} |-> {}]

Buffers == 1..3

NoBuffers == [b \in Buffers |-> EmptyMat]

Init ==
    /\ mode \in {"2D", "3D"}
    /\ gif \in Gifs
    /\ pc = "start"
    /\ capOpened = FALSE
    /\ capPos = 0
    /\ frame = EmptyMat /\ gray = EmptyMat
    /\ gx = EmptyMat /\ gy = EmptyMat /\ mag = EmptyMat /\ theta = EmptyMat
    /\ tasks = NoTasks
    /\ threads = [k \in Workers |-> "null"]
    /\ ci = 0
    /\ worker = [k \in Workers |-> IdleWorker]
    /\ gx8 = EmptyMat /\ gy8 = EmptyMat /\ mag8 = EmptyMat /\ theta8 = EmptyMat
    /\ outOriginal = <<>> /\ outGray = <<>> /\ outGx = <<>>
    /\ outGy = <<>> /\ outMag = <<>> /\ outTheta = <<>>
    /\ framePrevBgr = 0 /\ frameCurrBgr = 0 /\ frameNextBgr = 0
    /\ prev = 0 /\ curr = 0 /\ next = 0
    /\ bgrData = NoBuffers /\ grayData = NoBuffers
    /\ gt = EmptyMat /\ mag3d = EmptyMat /\ gt8 = EmptyMat /\ mag3d8 = EmptyMat
    /\ outGt = <<>> /\ outMag3D = <<>>
    /\ shown = 0
    /\ writer = NoWriter
    /\ iter = 0
    /\ normCount = 0
    /\ startFailed = FALSE
    /\ restarts = 0
    /\ ended = "no"
    /\ oob = FALSE
    /\ advances = 0

\* ------------------------------------------------------------------------
\* 2D: src/src/main.cpp
\* ------------------------------------------------------------------------
\* Open the GIF, read the first frame for its size, open the writers, rewind.
\* Any of the three can fail and ends the program.
Start2D ==
    /\ mode = "2D" /\ pc = "start"
    /\ \E opened \in BOOLEAN, writersOpened \in BOOLEAN :
         /\ capOpened' = opened
         /\ IF ~opened THEN
                /\ pc' = "exit"
                /\ frame' = frame
            ELSE IF gif.nFrames = 0 THEN
                /\ pc' = "exit"
                /\ frame' = EmptyMat
            ELSE
                /\ pc' = IF writersOpened THEN "loop" ELSE "exit"
                /\ frame' = SourceFrame(gif, 0)
         /\ ended' = IF opened /\ gif.nFrames > 0 /\ writersOpened THEN "no" ELSE "start"
    /\ capPos' = 0
    /\ UNCHANGED << mode, gif, gx, gy, outOriginal, shown, iter, normCount >>
    /\ UNCHANGED << gray, mag, theta, tasks, threads, ci, worker, gx8, gy8, mag8, theta8,
                    outGray, outGx, outGy, outMag, outTheta, writer, startFailed >>
    /\ UNCHANGED vars3D
    /\ UNCHANGED restarts
    /\ UNCHANGED << oob >>

\* cap >> frame delivers a frame: grayscale, zeroed outputs, the four tasks
ReadFrame ==
    /\ mode = "2D" /\ pc = "loop"
    /\ iter < MaxIter
    /\ capOpened /\ capPos < gif.nFrames
    /\ LET f == SourceFrame(gif, capPos)
           g == BGR2GRAY(f)
       IN  /\ frame' = f
           /\ gray' = g
           /\ gx' = ZeroMat(g.rows, g.cols)
           /\ gy' = ZeroMat(g.rows, g.cols)
           /\ mag' = ZeroMat(g.rows, g.cols)
           /\ theta' = ZeroMat(g.rows, g.cols)
           /\ tasks' = MakeTasks(g)
           /\ writer' = [c \in Cells(g.rows, g.cols) |-> {}]
    /\ capPos' = capPos + 1
    /\ threads' = [k \in Workers |-> "null"]
    /\ worker' = [k \in Workers |-> IdleWorker]
    /\ ci' = 0
    /\ iter' = iter + 1
    /\ pc' = "create"
    /\ UNCHANGED << mode, gif, capOpened, outOriginal, shown, normCount >>
    /\ UNCHANGED << gx8, gy8, mag8, theta8, outGray, outGx, outGy, outMag, outTheta, startFailed >>
    /\ UNCHANGED vars3D
    /\ UNCHANGED restarts
    /\ UNCHANGED << ended, oob >>

\* cap >> frame at the end of the GIF: release, open again, continue or break
Restart ==
    /\ mode = "2D" /\ pc = "loop"
    /\ iter < MaxIter
    /\ capOpened /\ capPos >= gif.nFrames
    /\ frame' = EmptyMat
    /\ capPos' = 0
    /\ \E opened \in BOOLEAN :
         /\ capOpened' = opened
         /\ pc' = IF opened THEN "loop" ELSE "done"
         /\ ended' = IF opened THEN "no" ELSE "reopen"
         /\ restarts' = IF opened THEN restarts + 1 ELSE restarts
    /\ UNCHANGED << mode, gif, gx, gy, outOriginal, shown, iter, normCount >>
    /\ UNCHANGED << gray, mag, theta, tasks, threads, ci, worker, gx8, gy8, mag8, theta8,
                    outGray, outGx, outGy, outMag, outTheta, writer, startFailed >>
    /\ UNCHANGED vars3D
    /\ UNCHANGED << oob >>

\* CreateThread(..., SobelWorker, &tasks[i], ...) returns a handle
CreateThreadOk ==
    /\ mode = "2D" /\ pc = "create" /\ ci < 4
    /\ threads' = [threads EXCEPT ![ci] = "open"]
    /\ worker' = [worker EXCEPT ![ci].st = "started"]
    /\ ci' = ci + 1
    /\ pc' = IF ci + 1 < 4 THEN "create" ELSE "wait"
    /\ UNCHANGED << mode, gif, capOpened, capPos, gx, gy, outOriginal, shown, iter, normCount >>
    /\ UNCHANGED << frame, gray, mag, theta, tasks, gx8, gy8, mag8, theta8,
                    outGray, outGx, outGy, outMag, outTheta, writer, startFailed >>
    /\ UNCHANGED vars3D
    /\ UNCHANGED restarts
    /\ UNCHANGED << ended, oob >>

\* CreateThread returns nullptr and the frame is processed all the same
CreateThreadFailsContinue ==
    /\ mode = "2D" /\ pc = "create" /\ ci < 4
    /\ startFailed' = TRUE
    /\ pc' = "normalize"
    /\ ended' = ended
    /\ UNCHANGED << mode, gif, capOpened, capPos, gx, gy, outOriginal, shown, iter, normCount,
                    restarts >>
    /\ UNCHANGED << frame, gray, mag, theta, tasks, threads, ci, worker, gx8, gy8, mag8, theta8,
                    outGray, outGx, outGy, outMag, outTheta, writer >>
    /\ UNCHANGED vars3D
    /\ UNCHANGED << oob >>

\* CreateThread returns nullptr: "Failed to create thread", return -1
CreateThreadFails ==
    /\ mode = "2D" /\ pc = "create" /\ ci < 4
    /\ startFailed' = TRUE
    /\ pc' = "failed"
    /\ ended' = "thread"
    /\ UNCHANGED << mode, gif, capOpened, capPos, gx, gy, outOriginal, shown, iter, normCount >>
    /\ UNCHANGED << frame, gray, mag, theta, tasks, threads, ci, worker, gx8, gy8, mag8, theta8,
                    outGray, outGx, outGy, outMag, outTheta, writer >>
    /\ UNCHANGED vars3D
    /\ UNCHANGED restarts
    /\ UNCHANGED << oob >>

\* SobelWorker, up to the loops: the clamp
SobelWorkerBegin(k) ==
    /\ mode = "2D" /\ worker[k].st = "started"
    /\ LET b == Clamp(tasks[k], gray)
       IN  worker' = [worker EXCEPT ![k] =
                        [st |-> IF LoopCells(b) = {} THEN "done" ELSE "loop",
                         startY |-> b.startY, endY |-> b.endY,
                         startX |-> b.startX, endX |-> b.endX,
                         y |-> b.startY, x |-> b.startX]]
    /\ UNCHANGED varsShared
    /\ UNCHANGED << frame, gray, mag, theta, tasks, threads, ci, gx8, gy8, mag8, theta8,
                    outGray, outGx, outGy, outMag, outTheta, writer, startFailed >>
    /\ UNCHANGED vars3D

\* SobelWorker: one pass of the loop body at (y, x), then on to the next pixel
\* of the region, or return 0
SobelWorkerPixel(k) ==
    /\ mode = "2D" /\ worker[k].st = "loop"
    /\ LET w == worker[k]
           f == StorePixel([gx |-> gx, gy |-> gy, mag |-> mag, theta |-> theta], gray, w.y, w.x)
           lastX == w.x + 1 >= w.endX
           lastY == w.y + 1 >= w.endY
       IN  /\ gx' = f.gx /\ gy' = f.gy /\ mag' = f.mag /\ theta' = f.theta
           /\ oob' = (oob \/ PixelOutOfBounds([gx |-> gx, gy |-> gy, mag |-> mag, theta |-> theta],
                                               gray, w.y, w.x))
           /\ writer' = IF <<w.y, w.x>> \in DOMAIN writer
                        THEN [writer EXCEPT ![<<w.y, w.x>>] = @ \cup {k}]
                        ELSE writer
           /\ worker' = [worker EXCEPT ![k] =
                           IF ~lastX THEN [w EXCEPT !.x = w.x + 1]
                           ELSE IF ~lastY THEN [w EXCEPT !.y = w.y + 1, !.x = w.startX]
                           ELSE [w EXCEPT !.st = "done"]]
    /\ UNCHANGED << mode, pc, gif, capOpened, capPos, outOriginal, shown, iter, normCount >>
    /\ UNCHANGED << frame, gray, tasks, threads, ci, gx8, gy8, mag8, theta8,
                    outGray, outGx, outGy, outMag, outTheta, startFailed >>
    /\ UNCHANGED vars3D
    /\ UNCHANGED restarts
    /\ UNCHANGED << ended >>

\* WaitForMultipleObjects(4, threads, FALSE, INFINITE): one finished thread is enough
WaitForAnyObject ==
    /\ mode = "2D" /\ pc = "wait"
    /\ \E k \in Workers : worker[k].st = "done"
    /\ threads' = [k \in Workers |-> "closed"]
    /\ pc' = "normalize"
    /\ UNCHANGED << mode, gif, capOpened, capPos, gx, gy, outOriginal, shown, iter, normCount,
                    restarts >>
    /\ UNCHANGED << frame, gray, mag, theta, tasks, ci, worker, gx8, gy8, mag8, theta8,
                    outGray, outGx, outGy, outMag, outTheta, writer, startFailed >>
    /\ UNCHANGED vars3D
    /\ UNCHANGED << ended, oob >>

\* WaitForMultipleObjects(4, threads, TRUE, INFINITE), then CloseHandle x 4
WaitForMultipleObjects ==
    /\ mode = "2D" /\ pc = "wait"
    /\ \A k \in Workers : worker[k].st = "done"
    /\ threads' = [k \in Workers |-> "closed"]
    /\ pc' = "normalize"
    /\ UNCHANGED << mode, gif, capOpened, capPos, gx, gy, outOriginal, shown, iter, normCount >>
    /\ UNCHANGED << frame, gray, mag, theta, tasks, ci, worker, gx8, gy8, mag8, theta8,
                    outGray, outGx, outGy, outMag, outTheta, writer, startFailed >>
    /\ UNCHANGED vars3D
    /\ UNCHANGED restarts
    /\ UNCHANGED << ended, oob >>

\* cv::normalize x 4, convertTo(CV_8U) x 4
Normalize2D ==
    /\ mode = "2D" /\ pc = "normalize"
    /\ gx8' = Normalize8(AbsMat(gx))
    /\ gy8' = Normalize8(AbsMat(gy))
    /\ mag8' = Normalize8(mag)
    /\ theta8' = Normalize8(theta)
    /\ normCount' = normCount + 1
    /\ pc' = "write"
    /\ UNCHANGED << mode, gif, capOpened, capPos, gx, gy, outOriginal, shown, iter >>
    /\ UNCHANGED << frame, gray, mag, theta, tasks, threads, ci, worker,
                    outGray, outGx, outGy, outMag, outTheta, writer, startFailed >>
    /\ UNCHANGED vars3D
    /\ UNCHANGED restarts
    /\ UNCHANGED << ended, oob >>

\* GRAY2BGR x 5, then the six writes
Write2D ==
    /\ mode = "2D" /\ pc = "write"
    /\ outOriginal' = Append(outOriginal, frame)
    /\ outGray' = Append(outGray, GRAY2BGR(gray))
    /\ outGx' = Append(outGx, GRAY2BGR(gx8))
    /\ outGy' = Append(outGy, GRAY2BGR(gy8))
    /\ outMag' = Append(outMag, GRAY2BGR(mag8))
    /\ outTheta' = Append(outTheta, GRAY2BGR(theta8))
    /\ pc' = "show"
    /\ UNCHANGED << mode, gif, capOpened, capPos, gx, gy, shown, iter, normCount >>
    /\ UNCHANGED << frame, gray, mag, theta, tasks, threads, ci, worker, gx8, gy8, mag8, theta8,
                    writer, startFailed >>
    /\ UNCHANGED vars3D
    /\ UNCHANGED restarts
    /\ UNCHANGED << ended, oob >>

\* the key is noticed but the loop goes on
Show2DIgnoreKey ==
    /\ mode = "2D" /\ pc = "show"
    /\ shown' = shown + 1
    /\ \E key \in BOOLEAN :
         /\ pc' = "loop"
         /\ ended' = IF key THEN "key" ELSE "no"
    /\ UNCHANGED << mode, gif, capOpened, capPos, gx, gy, outOriginal, iter, normCount >>
    /\ UNCHANGED vars2D
    /\ UNCHANGED vars3D
    /\ UNCHANGED restarts
    /\ UNCHANGED << oob >>

\* imshow x 2, then waitKey(delayMs): any key breaks the loop
Show2D ==
    /\ mode = "2D" /\ pc = "show"
    /\ shown' = shown + 1
    /\ \E key \in BOOLEAN :
         /\ pc' = IF key THEN "done" ELSE "loop"
         /\ ended' = IF key THEN "key" ELSE "no"
    /\ UNCHANGED << mode, gif, capOpened, capPos, gx, gy, outOriginal, iter, normCount >>
    /\ UNCHANGED vars2D
    /\ UNCHANGED vars3D
    /\ UNCHANGED restarts
    /\ UNCHANGED << oob >>

Next2D ==
    \/ Start2D
    \/ ReadFrame
    \/ Restart
    \/ CreateThreadOk
    \/ CreateThreadFails
    \/ \E k \in Workers : SobelWorkerBegin(k)
    \/ \E k \in Workers : SobelWorkerPixel(k)
    \/ WaitForMultipleObjects
    \/ Normalize2D
    \/ Write2D
    \/ Show2D

\* ------------------------------------------------------------------------
\* 3D: src/archive/Version_7/src/main.cpp
\* ------------------------------------------------------------------------
smooth == <<1, 2, 1>>

deriv == <<-1, 0, 1>>

\* the (dt, dy, dx) triples of the three inner loops, in loop order
Offsets3 == [n \in 1..27 |-> <<((n - 1) \div 9) - 1, (((n - 1) \div 3) % 3) - 1, ((n - 1) % 3) - 1>>]

\* the frame of the window with prev and next exchanged
ItSwapped(w, dt) == IF dt = -1 THEN w.next ELSE IF dt = 0 THEN w.curr ELSE w.prev

\* const cv::Mat* It = (dt == -1) ? &prev : (dt == 0) ? &curr : &next
It(w, dt) == IF dt = -1 THEN w.prev ELSE IF dt = 0 THEN w.curr ELSE w.next

\* the accumulators sumX, sumY, sumT of one pixel; w is the window of Mats
Sums3D(w, y, x) ==
    LET p(n) == MatAt(It(w, Offsets3[n][1]), y + Offsets3[n][2], x + Offsets3[n][3])
        wt_s(n) == smooth[Offsets3[n][1] + 2]
        wt_d(n) == deriv[Offsets3[n][1] + 2]
        wy_s(n) == smooth[Offsets3[n][2] + 2]
        wy_d(n) == deriv[Offsets3[n][2] + 2]
        wx_s(n) == smooth[Offsets3[n][3] + 2]
        wx_d(n) == deriv[Offsets3[n][3] + 2]
    IN  [sumX |-> SumSeq([n \in 1..27 |-> p(n) * (wx_d(n) * wy_s(n) * wt_s(n))]),
         sumY |-> SumSeq([n \in 1..27 |-> p(n) * (wx_s(n) * wy_d(n) * wt_s(n))]),
         sumT |-> SumSeq([n \in 1..27 |-> p(n) * (wx_s(n) * wy_s(n) * wt_d(n))])]

\* the four stores of one pixel
StorePixel3D(f, w, y, x) ==
    LET s == Sums3D(w, y, x)
    IN  [gx    |-> MatPut(f.gx, y, x, s.sumX),
         gy    |-> MatPut(f.gy, y, x, s.sumY),
         gt    |-> MatPut(f.gt, y, x, s.sumT),
         mag3d |-> MatPut(f.mag3d, y, x,
                     FloatSqrt(s.sumX * s.sumX + s.sumY * s.sumY + s.sumT * s.sumT))]

\* one pixel of the loops touches a cell outside the buffer it indexes: the 27
\* reads It.at(y + dy, x + dx) of prev, curr, next and the four stores at (y, x)
PixelOutOfBounds3D(f, w, y, x) ==
    \/ \E n \in 1..27 :
          <<y + Offsets3[n][2], x + Offsets3[n][3]>> \notin DOMAIN It(w, Offsets3[n][1]).data
    \/ \E m \in {f.gx, f.gy, f.gt, f.mag3d} : <<y, x>> \notin DOMAIN m.data

\* some pixel the two for loops visit, from pixel (y, x) on, is out of bounds
RECURSIVE TemporalLoopOutOfBounds(_, _, _, _)
TemporalLoopOutOfBounds(f, w, y, x) ==
    IF y >= w.curr.rows - 1 THEN FALSE
    ELSE IF x >= w.curr.cols - 1 THEN TemporalLoopOutOfBounds(f, w, y + 1, 1)
    ELSE PixelOutOfBounds3D(f, w, y, x) \/ TemporalLoopOutOfBounds(f, w, y, x + 1)

\* the two for loops over the interior of curr, from pixel (y, x) on
RECURSIVE TemporalLoop(_, _, _, _)
TemporalLoop(f, w, y, x) ==
    IF y >= w.curr.rows - 1 THEN f
    ELSE IF x >= w.curr.cols - 1 THEN TemporalLoop(f, w, y + 1, 1)
    ELSE TemporalLoop(StorePixel3D(f, w, y, x), w, y, x + 1)

\* zeroed outputs of the size of curr, then the loops
Sobel3D(w) ==
    TemporalLoop([gx    |-> ZeroMat(w.curr.rows, w.curr.cols),
                  gy    |-> ZeroMat(w.curr.rows, w.curr.cols),
                  gt    |-> ZeroMat(w.curr.rows, w.curr.cols),
                  mag3d |-> ZeroMat(w.curr.rows, w.curr.cols)], w, 1, 1)

\* --- the three Mats of a window and their buffers: h = [ref, data], where
\* --- ref.prev, ref.curr, ref.next are buffer ids (0: empty Mat)
Slots == {"prev", "curr", "next"}

Referenced(h) == {h.ref[s] : s \in Slots} \ {0}

\* a buffer lives as long as a Mat refers to it
Collect(h) == [h EXCEPT !.data = [b \in Buffers |-> IF b \in Referenced(h) THEN h.data[b] ELSE EmptyMat]]

FreshBuffer(h) == CHOOSE b \in Buffers \ Referenced(h) : \A c \in Buffers \ Referenced(h) : b <= c

\* dst = src (cv::Mat::operator=): dst refers to the buffer of src
MatAssign(h, dst, src) == Collect([h EXCEPT !.ref[dst] = h.ref[src]])

\* dst.release()
MatRelease(h, dst) == Collect([h EXCEPT !.ref[dst] = 0])

\* an operation with output dst (cap >> dst, cvtColor(src, dst, ...)):
\* dst.create(size, type) keeps the buffer dst refers to when size and type
\* match, and allocates one otherwise; then the pixels are stored
MatOutput(h, dst, m) ==
    IF h.ref[dst] # 0 /\ h.data[h.ref[dst]].rows = m.rows /\ h.data[h.ref[dst]].cols = m.cols
    THEN [h EXCEPT !.data[h.ref[dst]] = m]
    ELSE LET r == MatRelease(h, dst)
             b == FreshBuffer(r)
         IN  [ref |-> [r.ref EXCEPT ![dst] = b], data |-> [r.data EXCEPT ![b] = m]]

\* the pixels seen through Mat dst
Pixels(h, dst) == IF h.ref[dst] = 0 THEN EmptyMat ELSE h.data[h.ref[dst]]

\* cap >> dst at position pos: the frame, or an empty Mat at the end
CapRead(h, dst, pos) ==
    IF pos < gif.nFrames THEN MatOutput(h, dst, SourceFrame(gif, pos)) ELSE MatRelease(h, dst)

\* cap >> framePrevBgr; cap >> frameCurrBgr; cap >> frameNextBgr from position 0
ReadThree(h) == CapRead(CapRead(CapRead(h, "prev", 0), "curr", 1), "next", 2)

\* cvtColor(framePrevBgr, prev), (frameCurrBgr, curr), (frameNextBgr, next)
ConvertThree(hb, hg) ==
    LET g1 == MatOutput(hg, "prev", BGR2GRAY(Pixels(hb, "prev")))
        g2 == MatOutput(g1, "curr", BGR2GRAY(Pixels(hb, "curr")))
    IN  MatOutput(g2, "next", BGR2GRAY(Pixels(hb, "next")))

AnyEmpty(h) == \E s \in Slots : h.ref[s] = 0

BgrHeap == [ref |-> [prev |-> framePrevBgr, curr |-> frameCurrBgr, next |-> frameNextBgr],
            data |-> bgrData]

GrayHeap == [ref |-> [prev |-> prev, curr |-> curr, next |-> next], data |-> grayData]

\* the window as computed on: the pixels seen through prev, curr, next
Window == [prev |-> Pixels(GrayHeap, "prev"), curr |-> Pixels(GrayHeap, "curr"),
           next |-> Pixels(GrayHeap, "next")]

SetBgr(h) ==
    /\ framePrevBgr' = h.ref.prev /\ frameCurrBgr' = h.ref.curr /\ frameNextBgr' = h.ref.next
    /\ bgrData' = h.data

SetGray(h) ==
    /\ prev' = h.ref.prev /\ curr' = h.ref.curr /\ next' = h.ref.next
    /\ grayData' = h.data

\* Open the GIF, read one frame for the size, open the writers, rewind, and
\* prime the window with three frames
Start3D ==
    /\ mode = "3D" /\ pc = "start"
    /\ \E opened \in BOOLEAN, writersOpened \in BOOLEAN :
         /\ capOpened' = opened
         /\ IF ~opened \/ gif.nFrames = 0 \/ ~writersOpened THEN
                /\ pc' = "exit"
                /\ capPos' = 0
                /\ UNCHANGED << framePrevBgr, frameCurrBgr, frameNextBgr, prev, curr, next,
                                bgrData, grayData >>
            ELSE
                LET hb == ReadThree(BgrHeap)
                IN  /\ SetBgr(hb)
                    /\ capPos' = Min2(3, gif.nFrames)
                    /\ IF AnyEmpty(hb) THEN
                           /\ pc' = "exit"
                           /\ UNCHANGED << prev, curr, next, grayData >>
                       ELSE
                           /\ pc' = "compute"
                           /\ SetGray(ConvertThree(hb, GrayHeap))
         /\ ended' = IF opened /\ writersOpened /\ gif.nFrames >= 3 THEN "no" ELSE "start"
    /\ advances' = 0
    /\ UNCHANGED << mode, gif, gx, gy, outOriginal, shown, iter, normCount >>
    /\ UNCHANGED << gt, mag3d, gt8, mag3d8, outGt, outMag3D >>
    /\ UNCHANGED vars2D
    /\ UNCHANGED restarts
    /\ UNCHANGED << oob >>

\* zeroed gx, gy, gt, mag3d and the 3D convolution over the interior of curr
Compute3D ==
    /\ mode = "3D" /\ pc = "compute"
    /\ iter < MaxIter
    /\ LET f == Sobel3D(Window)
       IN  /\ gx' = f.gx /\ gy' = f.gy /\ gt' = f.gt /\ mag3d' = f.mag3d
           /\ oob' = (oob \/ TemporalLoopOutOfBounds(f, Window, 1, 1))
    /\ iter' = iter + 1
    /\ pc' = "normalize"
    /\ UNCHANGED << mode, gif, capOpened, capPos, outOriginal, shown, normCount >>
    /\ UNCHANGED << framePrevBgr, frameCurrBgr, frameNextBgr, prev, curr, next, bgrData, grayData,
                    gt8, mag3d8, outGt, outMag3D, advances >>
    /\ UNCHANGED vars2D
    /\ UNCHANGED restarts
    /\ UNCHANGED << ended >>

\* cv::normalize x 2, convertTo(CV_8U) x 2
Normalize3D ==
    /\ mode = "3D" /\ pc = "normalize"
    /\ gt8' = Normalize8(AbsMat(gt))
    /\ mag3d8' = Normalize8(mag3d)
    /\ normCount' = normCount + 1
    /\ pc' = "write"
    /\ UNCHANGED << mode, gif, capOpened, capPos, gx, gy, outOriginal, shown, iter >>
    /\ UNCHANGED << framePrevBgr, frameCurrBgr, frameNextBgr, prev, curr, next, bgrData, grayData,
                    gt, mag3d, outGt, outMag3D, advances >>
    /\ UNCHANGED vars2D
    /\ UNCHANGED restarts
    /\ UNCHANGED << ended, oob >>

\* GRAY2BGR x 2, then the three writes for this curr
Write3D ==
    /\ mode = "3D" /\ pc = "write"
    /\ outOriginal' = Append(outOriginal, Pixels(BgrHeap, "curr"))
    /\ outGt' = Append(outGt, GRAY2BGR(gt8))
    /\ outMag3D' = Append(outMag3D, GRAY2BGR(mag3d8))
    /\ pc' = "show"
    /\ UNCHANGED << mode, gif, capOpened, capPos, gx, gy, shown, iter, normCount >>
    /\ UNCHANGED << framePrevBgr, frameCurrBgr, frameNextBgr, prev, curr, next, bgrData, grayData,
                    gt, mag3d, gt8, mag3d8, advances >>
    /\ UNCHANGED vars2D
    /\ UNCHANGED restarts
    /\ UNCHANGED << ended, oob >>

\* imshow x 3, then waitKey(delayMs): any key breaks the loop
Show3D ==
    /\ mode = "3D" /\ pc = "show"
    /\ shown' = shown + 1
    /\ \E key \in BOOLEAN :
         /\ pc' = IF key THEN "done" ELSE "advance"
         /\ ended' = IF key THEN "key" ELSE "no"
    /\ UNCHANGED << mode, gif, capOpened, capPos, gx, gy, outOriginal, iter, normCount >>
    /\ UNCHANGED vars3D
    /\ UNCHANGED vars2D
    /\ UNCHANGED restarts
    /\ UNCHANGED << oob >>

\* framePrevBgr = frameCurrBgr; frameCurrBgr = frameNextBgr
ShiftBgr(h) == MatAssign(MatAssign(h, "prev", "curr"), "curr", "next")

\* prev = curr; curr = next
ShiftGray(h) == MatAssign(MatAssign(h, "prev", "curr"), "curr", "next")

\* Advance the window: the two shifts, cap >> frameNextBgr delivers a frame,
\* cvtColor(frameNextBgr, next)
Advance ==
    /\ mode = "3D" /\ pc = "advance"
    /\ capPos < gif.nFrames
    /\ LET hb == CapRead(ShiftBgr(BgrHeap), "next", capPos)
           hg == MatOutput(ShiftGray(GrayHeap), "next", BGR2GRAY(Pixels(hb, "next")))
       IN  SetBgr(hb) /\ SetGray(hg)
    /\ capPos' = capPos + 1
    /\ advances' = advances + 1
    /\ pc' = "compute"
    /\ UNCHANGED << mode, gif, capOpened, gx, gy, outOriginal, shown, iter, normCount >>
    /\ UNCHANGED << gt, mag3d, gt8, mag3d8, outGt, outMag3D >>
    /\ UNCHANGED vars2D
    /\ UNCHANGED restarts
    /\ UNCHANGED << ended, oob >>

\* The two shifts, cap >> frameNextBgr at the end of the GIF: reset_and_prime
\* (release, open), three reads, three cvtColor, continue; break when the
\* GIF does not open or a read is empty
AdvanceRestart ==
    /\ mode = "3D" /\ pc = "advance"
    /\ capPos >= gif.nFrames
    /\ \E opened \in BOOLEAN :
         /\ capOpened' = opened
         /\ restarts' = IF opened THEN restarts + 1 ELSE restarts
         /\ LET hb0 == CapRead(ShiftBgr(BgrHeap), "next", capPos)
                hg0 == ShiftGray(GrayHeap)
                hb1 == ReadThree(hb0)
            IN  IF ~opened THEN
                    /\ SetBgr(hb0) /\ SetGray(hg0)
                    /\ capPos' = 0
                    /\ advances' = advances
                    /\ pc' = "done"
                    /\ ended' = "reopen"
                ELSE IF AnyEmpty(hb1) THEN
                    /\ SetBgr(hb1) /\ SetGray(hg0)
                    /\ capPos' = Min2(3, gif.nFrames)
                    /\ advances' = advances
                    /\ pc' = "done"
                    /\ ended' = "reprime"
                ELSE
                    /\ SetBgr(hb1) /\ SetGray(ConvertThree(hb1, hg0))
                    /\ capPos' = 3
                    /\ advances' = 0
                    /\ pc' = "compute"
                    /\ ended' = "no"
    /\ UNCHANGED << mode, gif, gx, gy, outOriginal, shown, iter, normCount >>
    /\ UNCHANGED << gt, mag3d, gt8, mag3d8, outGt, outMag3D >>
    /\ UNCHANGED vars2D
    /\ UNCHANGED << oob >>

Next3D ==
    \/ Start3D
    \/ Compute3D
    \/ Normalize3D
    \/ Write3D
    \/ Show3D
    \/ Advance
    \/ AdvanceRestart

Next == Next2D \/ Next3D

Spec == Init /\ [][Next]_vars

\* ------------------------------------------------------------------------
\* Properties
\* ------------------------------------------------------------------------
\* the grayscale of frame f of the file
FrameGray(f) == BGR2GRAY(SourceFrame(gif, f))

\* the window shows frames a, b, c of the file
WindowIs(a, b, c) ==
    /\ Window.prev = FrameGray(a)
    /\ Window.curr = FrameGray(b)
    /\ Window.next = FrameGray(c)

\* the pixels worker k visits
RegionCells(k) == LoopCells(Clamp(tasks[k], gray))

\* the interior [1, rows-2] x [1, cols-2] of a Mat
Interior(m) == (1..(m.rows - 2)) \X (1..(m.cols - 2))

Border(m) == DOMAIN m.data \ Interior(m)

\* pixel c lies in the region [x0, x1) x [y0, y1) assigned to task t
InRegion(c, t) == t.y0 <= c[1] /\ c[1] < t.y1 /\ t.x0 <= c[2] /\ c[2] < t.x1

\* the main thread is between the creation of the tasks and the next frame
InFrame2D == mode = "2D" /\ pc \in {"create", "wait", "failed", "normalize", "write", "show"}

\* the main thread reads the float outputs, or has read them
AfterJoin2D == mode = "2D" /\ pc \in {"normalize", "write", "show"}

AfterCompute3D == mode = "3D" /\ pc \in {"normalize", "write", "show", "advance"}

Running(k) == worker[k].st \in {"started", "loop"}

\* C1: in 3D mode, in the pass that begins with the first priming, after k
\* advances the window (prev, curr, next) shows the grayscale of frames
\* k, k+1, k+2 of the file.
C1_WindowAfterAdvances ==
    (mode = "3D" /\ pc = "compute" /\ restarts = 0)
        => WindowIs(advances, advances + 1, advances + 2)

\* C2: for a frame of at least 3 x 3, the pixels the four workers visit are
\* pairwise disjoint, every clamped region has a non-negative extent, and
\* together they are exactly the interior.
C2_RegionPartition ==
    (InFrame2D /\ gray.rows >= 3 /\ gray.cols >= 3) =>
        /\ \A k \in Workers :
             LET b == Clamp(tasks[k], gray)
             IN  b.startX <= b.endX /\ b.startY <= b.endY
        /\ \A k, l \in Workers : k # l => RegionCells(k) \cap RegionCells(l) = {}
        /\ UNION {RegionCells(k) : k \in Workers} = Interior(gray)

C2_Witness ==
    /\ InFrame2D /\ gray.rows = 4 /\ gray.cols = 4
    /\ \A k \in Workers : Cardinality(RegionCells(k)) = 1
    /\ UNION {RegionCells(k) : k \in Workers} = {<<1, 1>>, <<1, 2>>, <<2, 1>>, <<2, 2>>}

\* C3: at every point of every interleaving of the four workers of a frame,
\* no output pixel was stored to by two workers, every pixel a worker stored
\* to lies in the region of its task, and the input raster is still the
\* grayscale of the frame.
C3_DisjointWrites ==
    InFrame2D =>
        /\ \A c \in DOMAIN writer :
             /\ Cardinality(writer[c]) <= 1
             /\ \A k \in writer[c] : InRegion(c, tasks[k])
        /\ gray = BGR2GRAY(frame)

C3_Witness ==
    /\ InFrame2D
    /\ \E k, l \in Workers :
         /\ k # l /\ worker[k].st = "loop" /\ worker[l].st = "loop"
         /\ Cardinality({c \in DOMAIN writer : writer[c] = {k}}) >= 2
         /\ Cardinality({c \in DOMAIN writer : writer[c] = {l}}) >= 1

\* C4: when the main thread normalizes, writes or shows the outputs of a
\* frame, all four workers of that frame have returned.
C4_JoinBarrier ==
    (mode = "2D" /\ (AfterJoin2D \/ (iter > 0 /\ normCount = iter)))
        => \A k \in Workers : worker[k].st = "done"

C4_Witness ==
    /\ mode = "2D" /\ pc = "normalize"
    /\ \A k \in Workers : worker[k].st = "done" /\ \E c \in DOMAIN writer : writer[c] = {k}

\* C5: after the join, the four outputs of the four workers equal, pixel for
\* pixel, the outputs of the sequential loop over the whole interior.
C5_PartitionInvariance ==
    AfterJoin2D =>
        LET s == SobelSequential(gray)
        IN  gx = s.gx /\ gy = s.gy /\ mag = s.mag /\ theta = s.theta

C5_Witness ==
    /\ AfterJoin2D /\ gray.rows = 5 /\ gray.cols = 5
    /\ \E c, d \in Interior(gray) : gx.data[c] # 0 /\ gy.data[d] # 0 /\ mag.data[c] # mag.data[d]

\* C6: in both modes, the border pixels of gx, gy and the magnitude (and of gt
\* in 3D mode) are 0 for every frame, and in 2D mode every pixel no worker of
\* this frame has stored to is 0: nothing of an earlier frame is left.
C6_BorderZero ==
    /\ InFrame2D =>
         /\ \A c \in Border(gx) : gx.data[c] = 0 /\ gy.data[c] = 0 /\ mag.data[c] = 0
         /\ \A c \in DOMAIN writer :
              writer[c] = {} => (gx.data[c] = 0 /\ gy.data[c] = 0 /\ mag.data[c] = 0)
    /\ AfterCompute3D =>
         \A c \in Border(gt) :
            gx.data[c] = 0 /\ gy.data[c] = 0 /\ gt.data[c] = 0 /\ mag3d.data[c] = 0

C6_Witness ==
    /\ mode = "2D" /\ pc = "create" /\ ci = 0 /\ iter = 2
    /\ gray.rows >= 3 /\ gray.cols >= 3
    /\ Len(outGx) = 1
    /\ \E c \in DOMAIN outGx[1].data : outGx[1].data[c] # <<0, 0, 0>>

\* C7: when CreateThread has failed for a frame, that frame is never
\* normalized, written or shown: the normalizations, the frames in each of
\* the six outputs and the imshow rounds are those of the earlier frames.
C7_FailFast ==
    startFailed =>
        /\ pc = "failed"
        /\ normCount = iter - 1
        /\ shown = iter - 1
        /\ \A out \in {outOriginal, outGray, outGx, outGy, outMag, outTheta} : Len(out) = iter - 1

C7_Witness ==
    /\ startFailed /\ iter = 2
    /\ \E c \in DOMAIN writer : writer[c] # {}
    /\ \E k \in Workers : Running(k)

\* C8: when the main thread has left the frame computation (it returned, or
\* went on to the next step), no worker thread is still running.
C8_WorkersJoined ==
    (mode = "2D" /\ pc \in {"failed", "done", "exit", "normalize", "write", "show", "loop"})
        => \A k \in Workers : ~Running(k)

\* C9: for a GIF whose frames are less than 3 wide or less than 3 high,
\* nothing is normalized and nothing is written.
C9_InvalidDimensions ==
    (gif.cols < 3 \/ gif.rows < 3) =>
        /\ normCount = 0
        /\ outOriginal = <<>> /\ outGx = <<>> /\ outMag = <<>>
        /\ outGt = <<>> /\ outMag3D = <<>>

\* C10: in 3D mode, with fewer than three frames nothing is computed or
\* written, and after every priming (the first one and the one at the end of
\* the GIF) the window shows frames 0, 1, 2.
C10_Priming ==
    mode = "3D" =>
        /\ gif.nFrames < 3 => (iter = 0 /\ outGt = <<>> /\ outMag3D = <<>> /\ outOriginal = <<>>)
        /\ (pc = "compute" /\ advances = 0) => WindowIs(0, 1, 2)

\* ---------------------------------------------------------------------------
\* the 1-D kernels the claims are stated with, indexed by an offset in -1..1
smoothing(o) == IF o = 0 THEN 2 ELSE 1

derivative(o) == o

\* the 3x3 raster whose three rows are all [0, 128, 255]
Ramp3x3 == [rows |-> 3, cols |-> 3,
            data |-> [c \in Cells(3, 3) |-> <<0, 128, 255>>[c[2] + 1]]]

\* C11: once the workers are joined, every interior pixel (y, x) holds
\* Gx = sum of p(y+j, x+i) * derivative[i] * smoothing[j] and
\* Gy = sum of p(y+j, x+i) * smoothing[i] * derivative[j] over i, j in -1..1,
\* Magnitude = sqrt(Gx^2 + Gy^2) (kept in quarters) and Theta = atan2(Gy, Gx);
\* for the 3x3 raster with rows [0, 128, 255] the centre has Gx = 1020, Gy = 0,
\* Magnitude = 1020 and Theta = 0.
C11_SpatialGradient ==
    AfterJoin2D =>
        /\ \A c \in Interior(gray) :
              LET sx == SumSeq([n \in 1..9 |->
                          LET j == ((n - 1) \div 3) - 1
                              i == ((n - 1) % 3) - 1
                          IN  gray.data[<<c[1] + j, c[2] + i>>] * derivative(i) * smoothing(j)])
                  sy == SumSeq([n \in 1..9 |->
                          LET j == ((n - 1) \div 3) - 1
                              i == ((n - 1) % 3) - 1
                          IN  gray.data[<<c[1] + j, c[2] + i>>] * smoothing(i) * derivative(j)])
              IN  /\ gx.data[c] = sx
                  /\ gy.data[c] = sy
                  /\ mag.data[c] * mag.data[c] <= 16 * (sx * sx + sy * sy)
                  /\ (mag.data[c] + 1) * (mag.data[c] + 1) > 16 * (sx * sx + sy * sy)
                  /\ theta.data[c] = Atan2(sy, sx)
        /\ gray = Ramp3x3 =>
              /\ gx.data[<<1, 1>>] = 1020
              /\ gy.data[<<1, 1>>] = 0
              /\ mag.data[<<1, 1>>] = 4 * 1020
              /\ theta.data[<<1, 1>>] = 0

\* the workers are joined on the 3x3 raster with rows [0, 128, 255]
C11_Witness ==
    /\ AfterJoin2D
    /\ gray = Ramp3x3
    /\ gx.data[<<1, 1>>] = 1020

\* the weighted 3x3x3 sum at pixel c of the window <<prev, curr, next>>, with
\* the derivative along the axis ax ("t", "y" or "x") and smoothing along the others
SeparableSum(ax, fr, c) ==
    SumSeq([n \in 1..27 |->
        LET dt == ((n - 1) \div 9) - 1
            dy == (((n - 1) \div 3) % 3) - 1
            dx == ((n - 1) % 3) - 1
        IN  fr[dt + 2].data[<<c[1] + dy, c[2] + dx>>]
              * (IF ax = "t" THEN derivative(dt) ELSE smoothing(dt))
              * (IF ax = "y" THEN derivative(dy) ELSE smoothing(dy))
              * (IF ax = "x" THEN derivative(dx) ELSE smoothing(dx))])

\* C12: after the 3-D convolution every interior pixel of curr holds in Gx, Gy
\* and Gt the sum over the 3x3x3 neighbourhood of the pixel value times the
\* separable weight with the derivative on the output axis and smoothing on the
\* other two, dt = -1 reading prev, 0 curr and +1 next; a window of three
\* identical frames has Gt = 0 at every cell.
C12_TemporalGradient ==
    AfterCompute3D =>
        LET fr == << Window.prev, Window.curr, Window.next >>
        IN  /\ \A c \in Interior(Window.curr) :
                  /\ gx.data[c] = SeparableSum("x", fr, c)
                  /\ gy.data[c] = SeparableSum("y", fr, c)
                  /\ gt.data[c] = SeparableSum("t", fr, c)
            /\ (Window.prev = Window.curr /\ Window.curr = Window.next)
                  => \A c \in DOMAIN gt.data : gt.data[c] = 0

\* a convolution of three different frames with a non-zero temporal gradient
C12_Witness ==
    /\ AfterCompute3D
    /\ Window.prev # Window.next
    /\ \E c \in Interior(Window.curr) : gt.data[c] # 0 /\ gx.data[c] # 0

\* a convolution of three identical frames that are not flat
C12_WitnessIdentical ==
    /\ AfterCompute3D
    /\ Window.prev = Window.curr /\ Window.curr = Window.next
    /\ \E c \in Interior(Window.curr) : gx.data[c] # 0

\* the 8-bit raster img is the linear rescale of the field f that takes the
\* minimum of f to 0 and its maximum to 255, to the nearest integer
LinearRescale(f, img) ==
    LET mn == MinOf(f)
        mx == MaxOf(f)
    IN  /\ DOMAIN img.data = DOMAIN f.data
        /\ \A c \in DOMAIN f.data :
              /\ f.data[c] = mn => img.data[c] = 0
              /\ f.data[c] = mx => img.data[c] = 255
              /\ 2 * Abs(img.data[c] * (mx - mn) - 255 * (f.data[c] - mn)) <= mx - mn

\* the fields of the frame and their visualization rasters are both in place
AfterNormalize2D == mode = "2D" /\ pc \in {"write", "show"}

AfterNormalize3D == mode = "3D" /\ pc \in {"write", "show", "advance"}

\* field f is not constant
Varies(f) == ~IsEmpty(f) /\ MinOf(f) # MaxOf(f)

C14_RestartReprimes ==
    mode = "3D" =>
        /\ (pc = "compute" /\ restarts > 0 /\ advances = 0) => WindowIs(0, 1, 2)
        /\ ended = "reprime" => pc = "done"

\* C16: at every point of the 3-D pipeline at which the window is primed, prev,
\* curr and next refer to three pairwise distinct pixel buffers.
C16_DistinctBuffers ==
    (mode = "3D" /\ pc \in {"compute", "normalize", "write", "show", "advance"}) =>
        /\ prev # curr
        /\ curr # next
        /\ prev # next

\* the main thread has left the video loop
LoopEnded == pc \in {"done", "failed"}

\* C15 (as stated): once a key press is reported the loop has ended, and a loop
\* that ended without a key press ended because the source could not be opened
\* again or, in 3-D mode, could not be re-primed.
C15_LoopEndsOnKeyOrSource ==
    /\ ended = "key" => pc = "done"
    /\ LoopEnded => ended \in {"key", "reopen", "reprime"}
    /\ ended = "reprime" => mode = "3D"

\* the state of a loop that has ended, by the reason for which it ended
LoopEndedFor ==
    /\ ended = "key" => (pc = "done" /\ shown = iter /\ Len(outOriginal) = iter)
    /\ ended = "reopen" => (pc = "done" /\ ~capOpened /\ capPos \in {0, gif.nFrames})
    /\ ended = "reprime" => (pc = "done" /\ mode = "3D")
    /\ ended = "thread" => (pc = "failed" /\ mode = "2D" /\ startFailed)
    /\ LoopEnded => ended \in {"key", "reopen", "reprime", "thread"}

\* C15 (amended): a frame shown without a key press sends the loop on to the
\* next frame; once a key press is reported nothing is read, computed or
\* written any more; and a loop that ended without a key press ended because
\* the source could not be opened again, because (3-D) the window could not be
\* re-primed, or because (2-D) a worker thread could not be created.
C15_LoopTermination ==
    /\ []LoopEndedFor
    /\ [][ended = "key" => UNCHANGED vars]_vars
    /\ [][(pc = "show" /\ pc' # "show" /\ ended' # "key") => pc' \in {"loop", "advance"}]_vars
    /\ [][(pc = "loop" /\ mode = "2D" /\ capPos >= gif.nFrames /\ ended' = "no")
            => (pc' = "loop" /\ capPos' = 0 /\ restarts' = restarts + 1)]_vars

\* the loop started again from the first frame at end-of-stream, and a key
\* press after a later frame ended it
C15_Witness ==
    /\ ended = "key"
    /\ restarts > 0
    /\ iter = 2 /\ Len(outOriginal) = 2

\* C17: for every raster size, a width or height of 1 or 2 included, and every
\* region handed to a worker, every pixel read at (y+j, x+i) and every output
\* cell written at (y, x) lies inside the raster; in the 3-D convolution the
\* same holds for the reads from prev and next.  (oob records an access outside
\* the buffer; the pixel a worker is about to process and the sequential loop
\* of Version_3 over the same frame are checked as well.)
C17_InBounds ==
    /\ oob = FALSE
    /\ mode = "2D" => \A k \in Workers :
          worker[k].st = "loop" =>
              /\ \A j, i \in -1..1 :
                    /\ 0 <= worker[k].y + j /\ worker[k].y + j <= gray.rows - 1
                    /\ 0 <= worker[k].x + i /\ worker[k].x + i <= gray.cols - 1
              /\ <<worker[k].y, worker[k].x>> \in DOMAIN gx.data
    /\ (mode = "2D" /\ pc = "create") =>
          ~SequentialLoopOutOfBounds([gx |-> gx, gy |-> gy, mag |-> mag, theta |-> theta],
                                     gray, 1, 1)
    /\ (mode = "3D" /\ pc = "compute") =>
          /\ Window.prev.rows = Window.curr.rows /\ Window.prev.cols = Window.curr.cols
          /\ Window.next.rows = Window.curr.rows /\ Window.next.cols = Window.curr.cols
    /\ AfterCompute3D =>
          ~TemporalLoopOutOfBounds([gx |-> gx, gy |-> gy, gt |-> gt, mag3d |-> mag3d],
                                   Window, 1, 1)

\* a worker has processed the pixel next to the bottom right corner of a
\* MaxDim x MaxDim frame, reading the corner
C17_Witness ==
    /\ mode = "2D" /\ pc = "wait"
    /\ gray.rows = MaxDim /\ gray.cols = MaxDim
    /\ writer[<<MaxDim - 2, MaxDim - 2>>] # {}

\* frames of height 1 and width 2 went through the join with no pixel visited
C17_WitnessThin ==
    /\ AfterJoin2D
    /\ gray.rows = 1 /\ gray.cols = 2
    /\ \A c \in DOMAIN writer : writer[c] = {}

\* the four visualization frames the 2-D pipeline derives from colour frame f
DerivedFrom(f) ==
    LET g == BGR2GRAY(f)
        d == SobelSequential(g)
    IN  [gray  |-> GRAY2BGR(g),
         gx    |-> GRAY2BGR(Normalize8(AbsMat(d.gx))),
         gy    |-> GRAY2BGR(Normalize8(AbsMat(d.gy))),
         mag   |-> GRAY2BGR(Normalize8(d.mag)),
         theta |-> GRAY2BGR(Normalize8(d.theta))]

\* C18: all sinks hold the same number of frames, one per iteration that
\* reached the write step; the frames appended in one iteration derive from one
\* source frame, in 3-D mode the original-video frame being the colour frame
\* whose grayscale is the window's curr; frames are appended in the order read.
C18_OutputAlignment ==
    /\ mode = "2D" =>
          /\ \A o \in {outGray, outGx, outGy, outMag, outTheta} : Len(o) = Len(outOriginal)
          /\ pc \in {"create", "wait", "failed", "normalize", "write"}
                => Len(outOriginal) = iter - 1
          /\ pc \in {"show", "loop", "done"} => Len(outOriginal) = iter
          /\ \A n \in 1..Len(outOriginal) :
                /\ outOriginal[n] = SourceFrame(gif, (n - 1) % gif.nFrames)
                /\ outGray[n] = DerivedFrom(outOriginal[n]).gray
                /\ outGx[n] = DerivedFrom(outOriginal[n]).gx
                /\ outGy[n] = DerivedFrom(outOriginal[n]).gy
                /\ outMag[n] = DerivedFrom(outOriginal[n]).mag
                /\ outTheta[n] = DerivedFrom(outOriginal[n]).theta
    /\ mode = "3D" =>
          /\ Len(outGt) = Len(outOriginal)
          /\ Len(outMag3D) = Len(outOriginal)
          /\ pc \in {"show", "advance"} =>
                /\ Len(outOriginal) = iter
                /\ BGR2GRAY(outOriginal[Len(outOriginal)]) = Window.curr
                /\ outGt[Len(outGt)] = GRAY2BGR(Normalize8(AbsMat(Sobel3D(Window).gt)))

\* the 2-D half of C18 alone
C18_Aligned2D == mode = "2D" => C18_OutputAlignment

====
